---------------------------- MODULE Spec2Model ----------------------------
(***************************************************************************)
(* Model of the multi-account AWS cost CLI (src/src/main.rs).              *)
(*                                                                         *)
(* The program is one sequential routine, main: it walks the profiles,     *)
(* resolves the accounts of each, sends one billing query per account,     *)
(* aggregates the answer, builds the account's report, and after the last  *)
(* profile computes the global summary and renders the tables or the JSON  *)
(* document.  The collaborators (profile files, Organizations, STS, Cost   *)
(* Explorer) are the environment: what they answer is chosen with \E.      *)
(*                                                                         *)
(* Period keys are date strings "%Y-%m-%d".  A key is modelled by the      *)
(* number of days from 2025-01-01 to the date, and the empty string (the   *)
(* key of a result that carries no time period) by NoDate, which is below  *)
(* every date as "" is below every string.  On keys of the one fixed       *)
(* format the string order is the order of these numbers.                  *)
(*                                                                         *)
(* Costs are f64 in the program; the model uses integers, on which f64     *)
(* addition, subtraction and comparison are exact, and computes quotients  *)
(* exactly (a fraction for a mean, RoundDiv for a rounded percentage).     *)
(*                                                                         *)
(* The billing query is the fluent builder of the Cost Explorer client:    *)
(* a call on a list field (metrics, group_by) appends to the list, a call  *)
(* on a single field (time_period, granularity, filter) sets the field.    *)
(***************************************************************************)
EXTENDS Integers, Sequences, FiniteSets, Bags, TLC

(* ------------------------------ bounds -------------------------------- *)

\* Longest profile list of a run.
MaxProfiles == 2
\* Most accounts one profile resolves to (after the account-id filter).
MaxAccounts == 2
\* Most period results the billing source returns in one run, over all its
\* responses.
MaxResults == 2

\* The key of a result without a time period: the empty string.
NoDate == -1
\* Period keys the billing source may return: "", 2025-01-01 (before the
\* recent window, which starts 2025-01-05) and 2025-02-01 (inside it).
Periods == {NoDate, 0, 31}
\* Days of a daily run in the pagination specification.
MaxDays == 15
\* Grouping keys (service names).
Services == {"a", "b"}
\* The amount of a group: <<>> when the metric or its amount is missing or
\* does not parse, <<n>> when it parses to n.
RawAmounts == {<<>>, <<-2>>, <<3>>}

\* --start-date values: the default 2025-01-01, and the days 8 and 7 days
\* before the default end date (2025-06-26 and 2025-06-27).
StartDates == {0, 176, 177}
\* GranularityOption
Granularities == {"Daily", "Monthly", "Hourly"}
\* --tag-key and --tag-value: <<>> for None, <<s>> for Some(s).
TagKeys == {<<>>, <<"env">>}
TagValues == {<<>>, <<"prod">>}

(* ------------------------- program constants -------------------------- *)

\* --end-date default "2025-07-04", in days from 2025-01-01.
end_date == 184
\* Duration::days(180)
WindowDays == 180
six_months_ago == end_date - WindowDays
\* The longest range of an hourly run, in days.
HourlyLimitDays == 7

\* The parsed command line, as far as the model reads it.
CliOptions ==
    [start_date : StartDates, granularity : Granularities,
     tag_key : TagKeys, tag_value : TagValues]

\* The command line without options: the default_value of every field.
DefaultCli ==
    [start_date |-> 0, granularity |-> "Monthly",
     tag_key |-> <<>>, tag_value |-> <<>>]

\* let max_columns = 10
max_columns == 10
\* Fixed columns of the unified view: Profile, Account ID, Account Name.
UnifiedReserved == 3
\* The service view's chunk size is max_columns - 2.
ServiceReserved == 2

(* ----------------------------- helpers -------------------------------- *)

Abs(n) == IF n < 0 THEN -n ELSE n

\* f64::round of the quotient n / d (d # 0): nearest integer, halves away
\* from zero.
RoundDiv(n, d) ==
    LET q == (2 * Abs(n) + Abs(d)) \div (2 * Abs(d))
    IN  IF (n < 0) = (d < 0) THEN q ELSE -q

\* HashMap::get(k).unwrap_or(&0.0)
GetOr0(m, k) == IF k \in DOMAIN m THEN m[k] ELSE 0

\* AddEntry that stores v (`=`) instead of adding it (`+=`).
AddEntryOverwrite(m, k, v) ==
    [x \in (DOMAIN m) \cup {k} |-> IF x = k THEN v ELSE m[x]]

\* *m.entry(k).or_insert(0.0) += v
AddEntry(m, k, v) ==
    [x \in (DOMAIN m) \cup {k} |-> IF x = k THEN GetOr0(m, k) + v ELSE m[x]]

\* m.values().sum()
RECURSIVE SumOver(_, _)
SumOver(m, keys) ==
    IF keys = {} THEN 0
    ELSE LET k == CHOOSE x \in keys : TRUE
         IN  m[k] + SumOver(m, keys \ {k})

SumValues(m) == SumOver(m, DOMAIN m)

\* a.parse::<f64>().unwrap_or(0.0), and 0.0 for a missing metric or amount
ParseAmount(a) == IF Len(a) = 0 THEN 0 ELSE a[1]

\* Vec::contains
Contains(s, x) == \E i \in 1..Len(s) : s[i] = x

EmptyMap == [x \in {} |-> 0]

(* ------------------------- report calculators ------------------------- *)

\* A group of a period result: its joined keys and its raw amount.
Groups == [keys : Services, amount : RawAmounts]

\* What result.groups may hold: the billing source groups a period by key,
\* so the groups of one result name different keys (a key comes back in
\* another result, also of the same period); no groups stands for None too.
GroupLists ==
    UNION {{g \in [1..k -> Groups] :
                \A i, j \in 1..k : i # j => g[i].keys # g[j].keys} :
           k \in 0..Cardinality(Services)}

\* The inner loop over result.groups: every group adds its cost to the
\* entry of its key for this month, creating the entries it needs.
RECURSIVE AggregateGroups(_, _, _)
AggregateGroups(smt, month, groups) ==
    IF groups = <<>> THEN smt
    ELSE LET g == Head(groups)
             inner == IF g.keys \in DOMAIN smt THEN smt[g.keys] ELSE EmptyMap
             smt1 == [s \in (DOMAIN smt) \cup {g.keys} |->
                        IF s = g.keys
                        THEN AddEntry(inner, month, ParseAmount(g.amount))
                        ELSE smt[s]]
         IN  AggregateGroups(smt1, month, Tail(groups))

\* ResultTotal that keeps the cost of the last group (`total_cost = cost`).
ResultTotalLast(groups) ==
    IF groups = <<>> THEN 0 ELSE ParseAmount(groups[Len(groups)].amount)

\* total_cost of one period result: the sum of its groups' costs.
RECURSIVE ResultTotal(_)
ResultTotal(groups) ==
    IF groups = <<>> THEN 0
    ELSE ParseAmount(Head(groups).amount) + ResultTotal(Tail(groups))

\* The observations the loop over result.groups goes through, added to a
\* bag of observations: one (period, group, amount) for every group.
RECURSIVE Observe(_, _, _)
Observe(bag, month, groups) ==
    IF groups = <<>> THEN bag
    ELSE Observe(bag (+) SetToBag({[month |-> month,
                                    keys |-> Head(groups).keys,
                                    amount |-> Head(groups).amount]}),
                 month, Tail(groups))

\* Grouping keys in the order in which the result's groups first name them.
RECURSIVE NoteKeys(_, _)
NoteKeys(order, groups) ==
    IF groups = <<>> THEN order
    ELSE NoteKeys(IF Contains(order, Head(groups).keys) THEN order
                  ELSE Append(order, Head(groups).keys),
                  Tail(groups))

\* MomChange with the quotient cut towards zero instead of rounded.
MomChangeTruncated(previous_cost, cost) ==
    IF previous_cost = <<>> THEN 0
    ELSE IF previous_cost[1] = 0 THEN 0
    ELSE LET n == (cost - previous_cost[1]) * 100
             d == previous_cost[1]
             q == Abs(n) \div Abs(d)
         IN  IF (n < 0) = (d < 0) THEN q ELSE -q

\* previous_cost.map(|prev| ...).unwrap_or(0.0); previous_cost is <<>> for
\* None and <<prev>> for Some(prev).
MomChange(previous_cost, cost) ==
    IF previous_cost = <<>> THEN 0
    ELSE IF previous_cost[1] = 0 THEN 0
    ELSE RoundDiv((cost - previous_cost[1]) * 100, previous_cost[1])

\* The cost_trend loop: one point per month of all_months as it is now.
CostTrend(months, totals) ==
    [i \in 1..Len(months) |->
        [month |-> months[i],
         total_cost |-> GetOr0(totals, months[i]),
         mom_change_percent |->
            MomChange(IF i = 1 THEN <<>> ELSE <<GetOr0(totals, months[i - 1])>>,
                      GetOr0(totals, months[i]))]]

\* A quotient of two f64, kept exact as a fraction.
Ratio(n, d) == [num |-> n, den |-> d]
RatEq(a, b) == a.num * b.den = b.num * a.den

AverageMonthlyCost(total_cost, months) ==
    IF Len(months) # 0 THEN Ratio(total_cost, Len(months)) ELSE Ratio(0, 1)

\* Sum of every month value of every service.
RECURSIVE SumServices(_, _)
SumServices(smt, keys) ==
    IF keys = {} THEN 0
    ELSE LET k == CHOOSE x \in keys : TRUE
         IN  SumValues(smt[k]) + SumServices(smt, keys \ {k})

\* TotalServiceCost over the services with a positive total only.
TotalServiceCostSurviving(smt) ==
    SumServices(smt, {k \in DOMAIN smt : SumValues(smt[k]) > 0})

TotalServiceCost(smt) == SumServices(smt, DOMAIN smt)

PercentOfTotal(service_total_cost, total_service_cost) ==
    IF total_service_cost > 0
    THEN RoundDiv(service_total_cost * 100, total_service_cost)
    ELSE 0

\* Reportable that lets a service with a zero total through.
ReportableNonNegative(service_total_cost) == service_total_cost >= 0

\* Whether the loop over service_monthly_totals pushes the service.
Reportable(service_total_cost) == service_total_cost > 0

\* The loop over service_monthly_totals, visiting the keys in `order`.
RECURSIVE PushServices(_, _, _)
PushServices(smt, order, total_service_cost) ==
    IF order = <<>> THEN <<>>
    ELSE LET s == Head(order)
             t == SumValues(smt[s])
             rest == PushServices(smt, Tail(order), total_service_cost)
         IN  IF Reportable(t)
             THEN <<[service |-> s,
                     monthly_costs |-> smt[s],
                     total_cost |-> t,
                     percent_of_total |-> PercentOfTotal(t, total_service_cost)]>>
                  \o rest
             ELSE rest

\* Where a stable descending sort puts x in the sorted list: behind every
\* element that does not compare Less than it.
RECURSIVE InsertDesc(_, _)
InsertDesc(sorted, x) ==
    IF sorted = <<>> THEN <<x>>
    ELSE IF Head(sorted).total_cost < x.total_cost THEN <<x>> \o sorted
    ELSE <<Head(sorted)>> \o InsertDesc(Tail(sorted), x)

\* sort_by(|a, b| b.total_cost.partial_cmp(&a.total_cost)): stable.
RECURSIVE SortByTotalDesc(_, _)
SortByTotalDesc(done, todo) ==
    IF todo = <<>> THEN done
    ELSE SortByTotalDesc(InsertDesc(done, Head(todo)), Tail(todo))

ServiceConsumption(smt, order) ==
    SortByTotalDesc(<<>>, PushServices(smt, order, TotalServiceCost(smt)))

\* The orders in which a HashMap with these keys may hand them out: every
\* arrangement of the keys.
IterationOrders(keys) ==
    {o \in [1..Cardinality(keys) -> keys] :
        \A i, j \in 1..Cardinality(keys) : i # j => o[i] # o[j]}

(* ----------------------- summary and rendering ------------------------ *)

\* NaiveDate::parse_from_str(m, "%Y-%m-%d"): fails on the empty key.
ParsesAsDate(m) == m # NoDate

InRecentWindow(m) == ParsesAsDate(m) /\ m >= six_months_ago

\* Vec::sort on the period keys (ascending, keys are distinct).
RECURSIVE SortAsc(_)
SortAsc(s) ==
    IF s = <<>> THEN <<>>
    ELSE LET lo == CHOOSE i \in 1..Len(s) : \A j \in 1..Len(s) : s[i] <= s[j]
         IN  <<s[lo]>> \o SortAsc(SubSeq(s, 1, lo - 1) \o SubSeq(s, lo + 1, Len(s)))

FilteredMonths(months) == SelectSeq(SortAsc(months), InRecentWindow)

TotalGlobalCost(totals) == SumValues(totals)

AverageGlobalMonthlyCost(total, filtered) ==
    IF Len(filtered) # 0 THEN Ratio(total, Len(filtered)) ELSE Ratio(0, 1)

\* chunks_exact(n): Chunks without the shorter last chunk.
RECURSIVE ChunksExact(_, _)
ChunksExact(s, n) ==
    IF Len(s) < n THEN <<>>
    ELSE <<SubSeq(s, 1, n)>> \o ChunksExact(SubSeq(s, n + 1, Len(s)), n)

\* slice::chunks(n): consecutive chunks of n elements, the last one shorter
\* when n does not divide the length.
RECURSIVE Chunks(_, _)
Chunks(s, n) ==
    IF s = <<>> THEN <<>>
    ELSE IF Len(s) <= n THEN <<s>>
    ELSE <<SubSeq(s, 1, n)>> \o Chunks(SubSeq(s, n + 1, Len(s)), n)

\* iter().position(|m| m == x).unwrap(): index from 0 of the first match.
Position(s, x) == (CHOOSE i \in 1..Len(s) : s[i] = x /\ \A j \in 1..(i - 1) : s[j] # x) - 1

\* The "Page {}" number printed over a chunk.
PageNumber(filtered, chunk, size) == (Position(filtered, chunk[1]) \div size) + 1

\* The pages one paginated table prints: the period columns and the label.
Pages(filtered, size) ==
    LET chunks == Chunks(filtered, size)
    IN  [k \in 1..Len(chunks) |->
            [columns |-> chunks[k], page |-> PageNumber(filtered, chunks[k], size)]]

UnifiedPages(filtered) == Pages(filtered, max_columns - UnifiedReserved)

ServicePages(filtered) == Pages(filtered, max_columns - ServiceReserved)

(* --------------------------- billing query --------------------------- *)

\* HourlyTooLong that refuses a range of exactly the limit as well.
HourlyTooLongInclusive(c) ==
    /\ c.granularity = "Hourly"
    /\ end_date - c.start_date >= HourlyLimitDays

\* The hourly range validation: (end_date - start_date).num_days() > 7.
HourlyTooLong(c) ==
    /\ c.granularity = "Hourly"
    /\ end_date - c.start_date > HourlyLimitDays

\* get_cost_and_usage(): the builder with nothing set.  An optional field is
\* <<>> for None and <<x>> for Some(x); group_by is a list.
GetCostAndUsage ==
    [time_period |-> <<>>, granularity |-> <<>>, metrics |-> <<>>,
     group_by |-> <<>>, filter |-> <<>>]

TimePeriod(req, start, end) ==
    [req EXCEPT !.time_period = <<[start |-> start, end |-> end]>>]

SetGranularity(req, g) == [req EXCEPT !.granularity = <<g>>]

Metrics(req, m) == [req EXCEPT !.metrics = Append(@, m)]

\* GroupBy that sets the grouping instead of adding to it.
GroupByReplace(req, g) == [req EXCEPT !.group_by = <<g>>]

\* .group_by(g): the builder appends g to the list of groupings.
GroupBy(req, g) == [req EXCEPT !.group_by = Append(@, g)]

\* .filter(e): the builder sets the one filter expression of the request,
\* replacing the expression an earlier call has set.
Filter(req, e) == [req EXCEPT !.filter = <<e>>]

ServiceDimension == [type |-> "DIMENSION", key |-> "SERVICE"]

TagDimension(tag_key) == [type |-> "TAG", key |-> tag_key]

\* Expression::builder().dimensions(LinkedAccount = account_id)
LinkedAccountExpression(account_id) ==
    [dimensions |-> <<[key |-> "LINKED_ACCOUNT", values |-> <<account_id>>]>>,
     tags |-> <<>>]

\* Expression::builder().tags(tag_key = tag_value)
TagsExpression(tag_key, tag_value) ==
    [dimensions |-> <<>>,
     tags |-> <<[key |-> tag_key, values |-> <<tag_value>>]>>]

\* request_builder as it is when it is sent for account_id under the
\* command line c.
RequestBuilder(c, account_id) ==
    LET base ==
            Filter(GroupBy(Metrics(SetGranularity(
                        TimePeriod(GetCostAndUsage, c.start_date, end_date),
                        c.granularity), "UnblendedCost"),
                    ServiceDimension),
                   LinkedAccountExpression(account_id))
    IN  IF c.tag_key # <<>> /\ c.tag_value # <<>>
        THEN Filter(base, TagsExpression(c.tag_key[1], c.tag_value[1]))
        ELSE IF c.tag_key # <<>>
        THEN GroupBy(base, TagDimension(c.tag_key[1]))
        ELSE base

(* ------------------------------- state -------------------------------- *)

VARIABLES
    cli,                    \* the parsed command line
    pc,                     \* where main is: "start", "profile", "account",
                            \* "results", "render", "done"
    profiles,               \* length of the profile list
    pi,                     \* index of the profile the outer loop is at
    filtered_accounts,      \* accounts of this profile not yet processed
    monthly_totals,         \* this account's month -> cost
    service_monthly_totals, \* this account's service -> (month -> cost)
    key_order,              \* this account's grouping keys, in the order the
                            \* response first named them (an observation of
                            \* the input; the program keeps no such list)
    consumed,               \* the (period, group, amount) observations of
                            \* this account's response that the loop has
                            \* gone through, as a bag (an observation of the
                            \* input, kept by ObserveResult only and dropped
                            \* with the response at the end of the iteration)
    sent,                   \* the billing queries sent so far, each with the
                            \* account it was built for (an observation of
                            \* what the billing source receives)
    nres,                   \* period results the billing source has returned
    all_months,             \* the period universe, in order of first sight
    global_monthly_totals,  \* month -> cost over every account
    account_cost_data,      \* the account reports
    unified_view_data,      \* the unified rows
    filtered_months,        \* the recent-window period list
    global_summary,         \* total_cost and average_monthly_cost
    stdout,                 \* what was printed
    stderr,                 \* the diagnostics, in order
    exit                    \* "running", "ok" (Ok(())) or "error" (Err)

vars == <<cli, pc, profiles, pi, filtered_accounts, monthly_totals,
          service_monthly_totals, key_order, consumed, sent, nres, all_months,
          global_monthly_totals, account_cost_data, unified_view_data,
          filtered_months, global_summary, stdout, stderr, exit>>

acct == <<monthly_totals, service_monthly_totals, key_order>>
collected == <<all_months, global_monthly_totals, account_cost_data,
               unified_view_data>>
summary == <<filtered_months, global_summary, stdout>>

NoSummary == [total_cost |-> 0, average_monthly_cost |-> Ratio(0, 1)]

\* main's own state before its first statement.
Fresh ==
    /\ pc = "start"
    /\ profiles = 0
    /\ pi = 1
    /\ filtered_accounts = <<>>
    /\ monthly_totals = EmptyMap
    /\ service_monthly_totals = EmptyMap
    /\ key_order = <<>>
    /\ consumed = EmptyBag
    /\ sent = <<>>
    /\ nres = 0
    /\ all_months = <<>>
    /\ global_monthly_totals = EmptyMap
    /\ account_cost_data = <<>>
    /\ unified_view_data = <<>>
    /\ filtered_months = <<>>
    /\ global_summary = NoSummary
    /\ stdout = <<>>
    /\ stderr = <<>>
    /\ exit = "running"

\* A run without command line options.
Init == cli = DefaultCli /\ Fresh

(* ------------------------------ actions ------------------------------- *)

\* main up to the profile loop: an hourly range over the limit ends the run
\* cleanly before the profiles are loaded, an empty profile list ends it
\* cleanly, an unreadable or malformed mapping file ends it with the error
\* (the dates parse).
Start ==
    /\ pc = "start"
    /\ \E n \in 0..MaxProfiles, map_ok \in BOOLEAN :
        IF HourlyTooLong(cli)
        THEN /\ n = 0
             /\ map_ok
             /\ stderr' = Append(stderr, [kind |-> "HourlyLimit"])
             /\ exit' = "ok"
             /\ pc' = "done"
             /\ UNCHANGED profiles
        ELSE IF n = 0
        THEN /\ stderr' = Append(stderr, [kind |-> "NoProfiles"])
             /\ exit' = "ok"
             /\ pc' = "done"
             /\ UNCHANGED profiles
        ELSE IF ~map_ok
        THEN /\ exit' = "error"
             /\ pc' = "done"
             /\ UNCHANGED <<profiles, stderr>>
        ELSE /\ profiles' = n
             /\ pc' = "profile"
             /\ UNCHANGED <<exit, stderr>>
    /\ UNCHANGED <<cli, pi, filtered_accounts, acct, consumed, sent, nres,
                   collected, summary>>

\* The head of one iteration of the profile loop: the accounts of the
\* profile are resolved and filtered; a profile without accounts is skipped.
ResolveAccounts ==
    /\ pc = "profile"
    /\ pi <= profiles
    /\ \E resolved \in BOOLEAN, n \in 0..MaxAccounts :
        IF ~resolved
        THEN /\ n = 0
             /\ stderr' = Append(stderr, [kind |-> "SkipProfile", profile |-> pi])
             /\ pi' = pi + 1
             /\ UNCHANGED <<pc, filtered_accounts>>
        ELSE IF n = 0
        THEN /\ stderr' = Append(stderr, [kind |-> "NoAccounts", profile |-> pi])
             /\ pi' = pi + 1
             /\ UNCHANGED <<pc, filtered_accounts>>
        ELSE /\ filtered_accounts' = [i \in 1..n |-> i]
             /\ pc' = "account"
             /\ UNCHANGED <<pi, stderr>>
    /\ UNCHANGED <<cli, profiles, acct, consumed, sent, nres, collected,
                   summary, exit>>

\* The account loop moves on: to the next account of the profile, or past
\* its last account to the next profile.
Advance ==
    /\ filtered_accounts' = Tail(filtered_accounts)
    /\ IF Len(filtered_accounts) > 1
       THEN pc' = "account" /\ pi' = pi
       ELSE pc' = "profile" /\ pi' = pi + 1

\* SkipAccount that gives up the run (`return Err`) instead of `continue`.
SkipAccountAbort ==
    /\ stderr' = Append(stderr, [kind |-> "SkipAccount", profile |-> pi,
                                 account_id |-> Head(filtered_accounts)])
    /\ exit' = "error"
    /\ pc' = "done"
    /\ UNCHANGED <<pi, filtered_accounts>>

\* The Err branch of the send: the diagnostic, then `continue`.
SkipAccount ==
    /\ stderr' = Append(stderr, [kind |-> "SkipAccount", profile |-> pi,
                                 account_id |-> Head(filtered_accounts)])
    /\ Advance
    /\ UNCHANGED exit

\* The head of one iteration of the account loop: fresh maps, the query is
\* built and sent.  An error skips the account.
FetchCostData ==
    /\ pc = "account"
    /\ monthly_totals' = EmptyMap
    /\ service_monthly_totals' = EmptyMap
    /\ key_order' = <<>>
    /\ consumed' = EmptyBag
    /\ sent' = Append(sent,
            [profile |-> pi,
             account_id |-> Head(filtered_accounts),
             request |-> RequestBuilder(cli, Head(filtered_accounts))])
    /\ \E ok \in BOOLEAN :
        IF ok
        THEN /\ pc' = "results"
             /\ UNCHANGED <<pi, filtered_accounts, stderr, exit>>
        ELSE SkipAccount
    /\ UNCHANGED <<cli, profiles, nres, collected, summary>>

\* The body of the loop over results_by_time for the result (month, groups).
ConsumeResult(month, groups) ==
    LET total_cost == ResultTotal(groups)
    IN  /\ service_monthly_totals' =
                AggregateGroups(service_monthly_totals, month, groups)
        /\ key_order' = NoteKeys(key_order, groups)
        /\ monthly_totals' = AddEntry(monthly_totals, month, total_cost)
        /\ global_monthly_totals' =
                AddEntry(global_monthly_totals, month, total_cost)
        /\ all_months' = IF Contains(all_months, month) THEN all_months
                         ELSE Append(all_months, month)

\* One iteration of the loop over results_by_time.
AggregateResult ==
    /\ pc = "results"
    /\ nres < MaxResults
    /\ \E month \in Periods, groups \in GroupLists : ConsumeResult(month, groups)
    /\ nres' = nres + 1
    /\ UNCHANGED <<cli, pc, profiles, pi, filtered_accounts, consumed, sent,
                   account_cost_data, unified_view_data, summary, stderr, exit>>

\* AggregateResult, with the observations the iteration reads noted in
\* `consumed`.
ObserveResult ==
    /\ pc = "results"
    /\ nres < MaxResults
    /\ \E month \in Periods, groups \in GroupLists :
        /\ ConsumeResult(month, groups)
        /\ consumed' = Observe(consumed, month, groups)
    /\ nres' = nres + 1
    /\ UNCHANGED <<cli, pc, profiles, pi, filtered_accounts, sent,
                   account_cost_data, unified_view_data, summary, stderr, exit>>

\* The rest of the iteration once the results are consumed: the trend, the
\* totals, the ranked services, and the two pushes.
BuildReport ==
    /\ pc = "results"
    /\ \E order \in IterationOrders(DOMAIN service_monthly_totals) :
        LET total_cost == SumValues(monthly_totals)
        IN  account_cost_data' = Append(account_cost_data,
                [profile |-> pi,
                 account_id |-> Head(filtered_accounts),
                 cost_trend |-> CostTrend(all_months, monthly_totals),
                 service_consumption |->
                    ServiceConsumption(service_monthly_totals, order),
                 total_cost |-> total_cost,
                 average_monthly_cost |->
                    AverageMonthlyCost(total_cost, all_months)])
    /\ unified_view_data' = Append(unified_view_data,
            [profile |-> pi,
             account_id |-> Head(filtered_accounts),
             monthly_costs |-> monthly_totals])
    /\ Advance
    /\ consumed' = EmptyBag
    /\ UNCHANGED <<cli, profiles, acct, sent, nres, all_months,
                   global_monthly_totals, summary, stderr, exit>>

\* After the profile loop: the "no data" exit, or the sort, the recent
\* window and the global summary.
Summarize ==
    /\ pc = "profile"
    /\ pi > profiles
    /\ IF account_cost_data = <<>>
       THEN /\ stderr' = Append(stderr, [kind |-> "NoData"])
            /\ exit' = "ok"
            /\ pc' = "done"
            /\ UNCHANGED <<all_months, filtered_months, global_summary>>
       ELSE /\ all_months' = SortAsc(all_months)
            /\ filtered_months' = FilteredMonths(all_months)
            /\ global_summary' =
                LET total_global_cost == TotalGlobalCost(global_monthly_totals)
                IN  [total_cost |-> total_global_cost,
                     average_monthly_cost |->
                        AverageGlobalMonthlyCost(total_global_cost,
                                                 FilteredMonths(all_months))]
            /\ pc' = "render"
            /\ UNCHANGED <<stderr, exit>>
    /\ UNCHANGED <<cli, profiles, pi, filtered_accounts, acct, consumed, sent,
                   nres, global_monthly_totals, account_cost_data,
                   unified_view_data, stdout>>

\* What --json prints.
JsonDocument ==
    [kind |-> "json",
     accounts |-> account_cost_data,
     unified_view |-> unified_view_data,
     global_summary |-> global_summary]

\* What the table branch prints: the unified pages, then per account the
\* trend table with its two totals and the service pages, then the global
\* summary.
TableReport ==
    [kind |-> "table",
     unified |-> UnifiedPages(filtered_months),
     accounts |->
        [i \in 1..Len(account_cost_data) |->
            [trend |-> account_cost_data[i].cost_trend,
             total_cost |-> account_cost_data[i].total_cost,
             average_monthly_cost |-> account_cost_data[i].average_monthly_cost,
             services |-> ServicePages(filtered_months)]],
     global_summary |-> global_summary]

\* The output: the JSON document or the tables, then the CSV export, whose
\* first failing write ends the run with the error (csv_ok: no export was
\* asked for, or every write went through).  The charts end no run.
Render ==
    /\ pc = "render"
    /\ \E json \in BOOLEAN, csv_ok \in BOOLEAN :
        /\ stdout' = Append(stdout, IF json THEN JsonDocument ELSE TableReport)
        /\ exit' = IF csv_ok THEN "ok" ELSE "error"
    /\ pc' = "done"
    /\ UNCHANGED <<cli, profiles, pi, filtered_accounts, acct, consumed, sent,
                   nres, collected, filtered_months, global_summary, stderr>>

Next ==
    \/ Start
    \/ ResolveAccounts
    \/ FetchCostData
    \/ AggregateResult
    \/ BuildReport
    \/ Summarize
    \/ Render

Spec == Init /\ [][Next]_vars

(* ------------------- the pagination specification -------------------- *)

\* The period keys of a daily run: the last day before the recent window
\* and the first MaxDays - 1 days inside it.
PageDays == (six_months_ago - 1)..(six_months_ago + MaxDays - 2)

RECURSIVE Ascending(_)
Ascending(S) ==
    IF S = {} THEN <<>>
    ELSE LET lo == CHOOSE x \in S : \A y \in S : x <= y
         IN  <<lo>> \o Ascending(S \ {lo})

Reverse(s) == [i \in 1..Len(s) |-> s[Len(s) + 1 - i]]

\* The state main is in once it has processed the first account of its
\* one profile, whose response held one result without groups for each key
\* of `months`, in that order: at `at` in the code, with the accounts `rest`
\* of the profile still to come.
AfterOneAccount(months, at, rest) ==
    LET totals == [m \in {months[i] : i \in 1..Len(months)} |-> 0]
    IN  /\ cli = DefaultCli
        /\ pc = at
        /\ profiles = 1
        /\ pi = IF rest = <<>> THEN 2 ELSE 1
        /\ filtered_accounts = rest
        /\ monthly_totals = totals
        /\ service_monthly_totals = EmptyMap
        /\ key_order = <<>>
        /\ consumed = EmptyBag
        /\ sent = <<[profile |-> 1, account_id |-> 1,
                     request |-> RequestBuilder(DefaultCli, 1)]>>
        /\ nres = 0
        /\ all_months = months
        /\ global_monthly_totals = totals
        /\ account_cost_data =
              <<[profile |-> 1,
                 account_id |-> 1,
                 cost_trend |-> CostTrend(months, totals),
                 service_consumption |-> ServiceConsumption(EmptyMap, <<>>),
                 total_cost |-> SumValues(totals),
                 average_monthly_cost |->
                    AverageMonthlyCost(SumValues(totals), months)]>>
        /\ unified_view_data =
              <<[profile |-> 1, account_id |-> 1, monthly_costs |-> totals]>>
        /\ filtered_months = <<>>
        /\ global_summary = NoSummary
        /\ stdout = <<>>
        /\ stderr = <<>>
        /\ exit = "running"

\* A daily run over one account, at the end of the profile loop.
PageInit ==
    \E S \in SUBSET PageDays, descending \in BOOLEAN :
        AfterOneAccount(IF descending THEN Reverse(Ascending(S)) ELSE Ascending(S),
                        "profile", <<>>)

PageNext == Summarize \/ Render

PageSpec == PageInit /\ [][PageNext]_vars

(* -------------------- the one-account specification ------------------- *)

\* The period universes an earlier account may leave behind: the keys of
\* Periods it saw, in the order in which it saw them.
PriorUniverses ==
    UNION {{m \in [1..k -> Periods] : \A i, j \in 1..k : i # j => m[i] # m[j]} :
           k \in 0..Cardinality(Periods)}

\* The account loop is at the second account of the profile; the first one
\* left a period universe behind.
AccountInit ==
    \E months \in PriorUniverses : AfterOneAccount(months, "account", <<2>>)

\* The iteration of the account loop for that account.
AccountNext == FetchCostData \/ AggregateResult \/ BuildReport

AccountSpec == AccountInit /\ [][AccountNext]_vars

(* -------------------- the aggregation specification ------------------- *)

\* The account loop is at the second account of the profile; the response
\* of the first one held no period results.
ObservedInit == AfterOneAccount(<<>>, "account", <<2>>)

\* The iteration of the account loop for that account, its observations
\* noted.
ObservedNext == FetchCostData \/ ObserveResult \/ BuildReport

ObservedSpec == ObservedInit /\ [][ObservedNext]_vars

(* -------------------- the command line specification ------------------ *)

\* A run under any command line.
CliInit == cli \in CliOptions /\ Fresh

\* main up to the end of the profile loop, over responses that hold no
\* period results.
CliNext == Start \/ ResolveAccounts \/ FetchCostData \/ BuildReport

CliSpec == CliInit /\ [][CliNext]_vars

\* main takes its next step whenever it has one.
CliFairSpec == CliSpec /\ WF_vars(CliNext)

(* ----------------------------- properties ------------------------------ *)

\* The profile loop is over and at least one report was built.
Collected == pc \in {"render", "done"} /\ account_cost_data # <<>>

\* The periods observed across every account of the run.
Universe == {all_months[i] : i \in 1..Len(all_months)}

\* The months of a trend, in the order of its points.
TrendMonths(r) == [i \in 1..Len(r.cost_trend) |-> r.cost_trend[i].month]

\* r is the quotient n / d (d # 0) rounded to the nearest integer, a half
\* rounded away from zero.
IsRounded(r, n, d) ==
    /\ 2 * Abs(n - r * d) <= Abs(d)
    /\ 2 * Abs(n - r * d) = Abs(d) => Abs(r * d) > Abs(n)

\* The step appends a report to account_cost_data.
ReportBuilt == Len(account_cost_data') = Len(account_cost_data) + 1

NewReport == account_cost_data'[Len(account_cost_data')]

\* The step prints the diagnostic of a skipped account.
AccountSkipped ==
    /\ Len(stderr') = Len(stderr) + 1
    /\ stderr'[Len(stderr')].kind = "SkipAccount"

\* C1: once the run has collected its reports, the trend of every account
\* has exactly one point per period of the final period universe, in
\* ascending period order.
C1_TrendCoversUniverse ==
    Collected =>
        \A i \in 1..Len(account_cost_data) :
            TrendMonths(account_cost_data[i]) = Ascending(Universe)

\* C2: in every trend, mom_change_percent is 0 for the first point, 0 when
\* the cost of the point before it is 0, and otherwise 100 * (cost -
\* previous) / previous rounded to the nearest integer.
C2_MomChange ==
    \A a \in 1..Len(account_cost_data) :
        LET t == account_cost_data[a].cost_trend
        IN  \A i \in 1..Len(t) :
                IF i = 1 THEN t[i].mom_change_percent = 0
                ELSE IF t[i - 1].total_cost = 0 THEN t[i].mom_change_percent = 0
                ELSE IsRounded(t[i].mom_change_percent,
                               100 * (t[i].total_cost - t[i - 1].total_cost),
                               t[i - 1].total_cost)

\* C2 witness: a trend holds a point whose percentage is a quotient that
\* had to be rounded, and a point with a cost behind a zero-cost point.
C2_Witness ==
    \E a \in 1..Len(account_cost_data) :
        LET t == account_cost_data[a].cost_trend
        IN  /\ \E i \in 2..Len(t) :
                    /\ t[i - 1].total_cost # 0
                    /\ t[i].mom_change_percent * t[i - 1].total_cost
                            # 100 * (t[i].total_cost - t[i - 1].total_cost)
            /\ \E i \in 2..Len(t) :
                    /\ t[i - 1].total_cost = 0
                    /\ t[i].total_cost # 0
                    /\ t[i].mom_change_percent = 0

\* Sum of total_cost over the entries of a ranked service list.
RECURSIVE SumTotals(_)
SumTotals(list) ==
    IF list = <<>> THEN 0 ELSE Head(list).total_cost + SumTotals(Tail(list))

RECURSIVE SumAllGroups(_, _)
SumAllGroups(smt, keys) ==
    IF keys = {} THEN 0
    ELSE LET k == CHOOSE x \in keys : TRUE
         IN  SumOver(smt[k], DOMAIN smt[k]) + SumAllGroups(smt, keys \ {k})

C4_TotalOverRecentWindow ==
    Collected =>
        LET recent == {m \in DOMAIN global_monthly_totals :
                            m # NoDate /\ m >= end_date - 180}
            total == SumOver(global_monthly_totals, recent)
        IN  /\ global_summary.total_cost = total
            /\ IF recent = {}
               THEN global_summary.average_monthly_cost.num = 0
               ELSE RatEq(global_summary.average_monthly_cost,
                          Ratio(total, Cardinality(recent)))

\* C5: the average_monthly_cost of every report is the account's total_cost
\* over the number of periods of the run's period universe, 0 if it is
\* empty.
C5_AverageOverUniverse ==
    Collected =>
        \A a \in 1..Len(account_cost_data) :
            LET r == account_cost_data[a]
            IN  IF Universe = {} THEN r.average_monthly_cost.num = 0
                ELSE RatEq(r.average_monthly_cost,
                           Ratio(r.total_cost, Cardinality(Universe)))

\* C6: a step that skips an account for a failed billing query names the
\* account the loop is at, adds no report and no unified row, leaves the
\* period universe and the global totals as they are, keeps the run
\* running, and hands the loop to the next account of the profile or, after
\* the last one, to the next profile; the run ends with the error only
\* before the first profile or in the output, and once in the loop it ends
\* only after the last profile.
C6_FetchFailureSkipsAccount ==
    [][
        /\ AccountSkipped =>
            /\ pc = "account"
            /\ stderr'[Len(stderr')].profile = pi
            /\ stderr'[Len(stderr')].account_id = Head(filtered_accounts)
            /\ UNCHANGED <<all_months, global_monthly_totals,
                           account_cost_data, unified_view_data>>
            /\ exit' = "running"
            /\ filtered_accounts' = Tail(filtered_accounts)
            /\ IF Len(filtered_accounts) > 1
               THEN pc' = "account" /\ pi' = pi
               ELSE pc' = "profile" /\ pi' = pi + 1
        /\ (exit' = "error" /\ exit # "error") => pc \in {"start", "render"}
        /\ (pc' = "done" /\ pc \notin {"done", "start"}) =>
                (pi > profiles /\ filtered_accounts = <<>>)
    ]_vars

\* C6 witness: the run ended cleanly with the first account of the first
\* profile skipped, and with a report for the second account of that
\* profile and a report for an account of the second profile.
C6_Witness ==
    /\ pc = "done"
    /\ exit = "ok"
    /\ \E i \in 1..Len(stderr) :
            stderr[i] = [kind |-> "SkipAccount", profile |-> 1, account_id |-> 1]
    /\ \A a \in 1..Len(account_cost_data) :
            ~(account_cost_data[a].profile = 1 /\ account_cost_data[a].account_id = 1)
    /\ \E a \in 1..Len(account_cost_data) :
            account_cost_data[a].profile = 1 /\ account_cost_data[a].account_id = 2
    /\ \E a \in 1..Len(unified_view_data) : unified_view_data[a].profile = 2

\* C7: a run that went through its profiles without any account yielding a
\* period result, and ended cleanly, ended with the "no data" exit: the
\* diagnostic and nothing printed.
C7_NoDataExit ==
    (pc = "done" /\ exit = "ok" /\ profiles > 0 /\ all_months = <<>>) =>
        /\ stdout = <<>>
        /\ stderr # <<>>
        /\ stderr[Len(stderr)] = [kind |-> "NoData"]

\* The concatenation of the pages' period columns.
RECURSIVE Columns(_)
Columns(pages) ==
    IF pages = <<>> THEN <<>> ELSE Head(pages).columns \o Columns(Tail(pages))

\* The pages split `list` into consecutive full pages of `size` periods, the
\* last one possibly shorter, none empty, the k-th labelled k.
Paginates(pages, list, size) ==
    /\ Columns(pages) = list
    /\ \A k \in 1..Len(pages) :
        /\ pages[k].page = k
        /\ Len(pages[k].columns) >= 1
        /\ Len(pages[k].columns) <= size
        /\ k < Len(pages) => Len(pages[k].columns) = size

\* C8: the printed unified pages (7 periods a page) and every account's
\* service pages (8 periods a page) hold, concatenated in page order, the
\* recent-window periods of the universe in ascending order, each once;
\* every page but the last is full, none is empty, the k-th is labelled k;
\* 14 periods make 2 unified pages.
C8_PagesPartitionFilteredMonths ==
    (pc = "done" /\ stdout # <<>> /\ stdout[1].kind = "table") =>
        LET recent == Ascending({m \in Universe : m # NoDate /\ m >= end_date - 180})
            out == stdout[1]
        IN  /\ filtered_months = recent
            /\ Paginates(out.unified, recent, 7)
            /\ Len(out.accounts) = Len(account_cost_data)
            /\ \A a \in 1..Len(out.accounts) :
                    Paginates(out.accounts[a].services, recent, 8)
            /\ Len(recent) = 14 => Len(out.unified) = 2

\* C8 witness: tables were printed over 14 recent-window periods, in 2
\* unified pages and 2 service pages, the last service page with 6 periods.
C8_Witness ==
    /\ pc = "done"
    /\ stdout # <<>>
    /\ stdout[1].kind = "table"
    /\ Len(filtered_months) = 14
    /\ Len(stdout[1].unified) = 2
    /\ Len(stdout[1].accounts[1].services) = 2
    /\ Len(stdout[1].accounts[1].services[2].columns) = 6

\* C9: when a report is built, its ranked list names exactly the grouping
\* keys whose summed cost over all periods is above 0, each once and with
\* that sum as total_cost, in non-increasing order of total_cost.
C9_RankedServices ==
    [][ReportBuilt =>
            LET smt == service_monthly_totals
                list == NewReport.service_consumption
                positive == {k \in DOMAIN smt : SumOver(smt[k], DOMAIN smt[k]) > 0}
            IN  /\ {list[i].service : i \in 1..Len(list)} = positive
                /\ Len(list) = Cardinality(positive)
                /\ \A i \in 1..Len(list) :
                        list[i].total_cost =
                            SumOver(smt[list[i].service], DOMAIN smt[list[i].service])
                /\ \A i \in 1..(Len(list) - 1) :
                        list[i].total_cost >= list[i + 1].total_cost]_vars

\* C9 witness: a report was just built for an account whose response named
\* two grouping keys, one with a positive total, which the list ranks, and
\* one with a total that is not positive, which the list leaves out.
C9_Witness ==
    /\ pc \in {"account", "profile"}
    /\ account_cost_data # <<>>
    /\ LET r == account_cost_data[Len(account_cost_data)]
       IN  /\ DOMAIN service_monthly_totals = Services
           /\ Len(r.service_consumption) = 1
           /\ r.total_cost <= r.service_consumption[1].total_cost

\* The place of a grouping key in the first-seen order.
SeenAt(k) == CHOOSE i \in 1..Len(key_order) : key_order[i] = k

\* C10: when a report is built, two ranked services with equal total_cost
\* stand in the order in which the response first named their keys.
C10_TiesInFirstSeenOrder ==
    [][ReportBuilt =>
            LET list == NewReport.service_consumption
            IN  \A i, j \in 1..Len(list) :
                    (i < j /\ list[i].total_cost = list[j].total_cost) =>
                        SeenAt(list[i].service) < SeenAt(list[j].service)]_vars

\* The total of a grouping key over all periods, from the nested map.
ServiceTotal(k) ==
    SumOver(service_monthly_totals[k], DOMAIN service_monthly_totals[k])

\* The grouping keys of the account that the ranked list leaves out.
Discarded == {k \in DOMAIN service_monthly_totals : ServiceTotal(k) <= 0}

\* C11 as stated: when a report is built, the total_cost of its ranked
\* services sum to at most the account's total_cost, and to exactly that
\* when no grouping key was left out of the list.
C11_SurvivingAtMostTotal ==
    [][ReportBuilt =>
            LET surviving == SumTotals(NewReport.service_consumption)
            IN  /\ surviving <= NewReport.total_cost
                /\ Discarded = {} => surviving = NewReport.total_cost]_vars

\* C11 amended: when a report is built, the total_cost of its ranked
\* services sum to at least the account's total_cost, and to exactly that
\* if and only if no grouping key with a negative total was left out.
C11_SurvivingAtLeastTotal ==
    [][ReportBuilt =>
            LET surviving == SumTotals(NewReport.service_consumption)
            IN  /\ surviving >= NewReport.total_cost
                /\ surviving = NewReport.total_cost
                        <=> \A k \in Discarded : ServiceTotal(k) = 0]_vars

\* C11 witness: a report was just built whose ranked services sum to more
\* than the account's total_cost, a grouping key with a negative total
\* having been left out.
C11_Witness ==
    /\ pc \in {"account", "profile"}
    /\ account_cost_data # <<>>
    /\ LET r == account_cost_data[Len(account_cost_data)]
       IN  /\ r.service_consumption # <<>>
           /\ SumTotals(r.service_consumption) > r.total_cost
           /\ \E k \in Discarded : ServiceTotal(k) < 0

\* The grouping dimensions a sent query asks for, as their types.
GroupingTypes(q) ==
    {q.request.group_by[i].type : i \in 1..Len(q.request.group_by)}

HourlyOverSevenDays ==
    cli.granularity = "Hourly" /\ end_date - cli.start_date > 7

\* The run is hourly over a range of at most 7 days.
HourlyWithinSevenDays ==
    cli.granularity = "Hourly" /\ end_date - cli.start_date <= 7

\* The warning of the hourly limit was printed.
HourlyWarned == \E i \in 1..Len(stderr) : stderr[i].kind = "HourlyLimit"

\* C13: an hourly run over more than 7 days has, once past its start,
\* ended cleanly with the warning as its only diagnostic, no profile
\* loaded, no account resolved, no query sent and nothing collected or
\* printed, and it does get past its start; an hourly run over at most 7
\* days never prints the warning and never ends on the hourly check.
C13_HourlyLimit ==
    /\ []((HourlyOverSevenDays /\ pc # "start") =>
            /\ pc = "done"
            /\ exit = "ok"
            /\ stderr = <<[kind |-> "HourlyLimit"]>>
            /\ profiles = 0
            /\ filtered_accounts = <<>>
            /\ sent = <<>>
            /\ account_cost_data = <<>>
            /\ stdout = <<>>)
    /\ [](HourlyWithinSevenDays => ~HourlyWarned)
    /\ [][(HourlyWithinSevenDays /\ pc = "start" /\ pc' = "done") =>
            \/ exit' = "error"
            \/ stderr'[Len(stderr')].kind = "NoProfiles"]_vars
    /\ (HourlyOverSevenDays ~> (pc = "done" /\ exit = "ok"))

\* C13 witness: an hourly run over more than 7 days has ended.
C13_Witness ==
    /\ HourlyOverSevenDays
    /\ pc = "done"
    /\ HourlyWarned

\* An hourly run over exactly 7 days has sent a query.
C13_WitnessProceeds ==
    /\ cli.granularity = "Hourly"
    /\ end_date - cli.start_date = 7
    /\ sent # <<>>
    /\ sent[1].request.granularity = <<"Hourly">>

\* The sum of the amounts of the observations S of the bag, each as often
\* as the bag holds it; an amount that is missing or does not parse is 0.
RECURSIVE SumObserved(_, _)
SumObserved(bag, S) ==
    IF S = {} THEN 0
    ELSE LET o == CHOOSE x \in S : TRUE
         IN  CopiesIn(o, bag) * (IF o.amount = <<>> THEN 0 ELSE o.amount[1])
                + SumObserved(bag, S \ {o})

\* The observations consumed for grouping key k and period m.
ObservedFor(k, m) == {o \in BagToSet(consumed) : o.keys = k /\ o.month = m}

\* The value of service -> (month -> cost) at (k, m), 0 without an entry.
ServiceMonth(k, m) ==
    IF k \in DOMAIN service_monthly_totals
    THEN GetOr0(service_monthly_totals[k], m)
    ELSE 0

RECURSIVE SumServiceMonth(_, _)
SumServiceMonth(keys, m) ==
    IF keys = {} THEN 0
    ELSE LET k == CHOOSE x \in keys : TRUE
         IN  ServiceMonth(k, m) + SumServiceMonth(keys \ {k}, m)

\* C14: while the results of an account are consumed, the service -> (month
\* -> cost) value of every (group, period) is the sum of the amounts
\* observed for the pair and has an entry exactly when the pair was
\* observed; the month -> total value of every period is the sum of the
\* amounts observed for the period over all groups, and equals the sum over
\* the groups of service -> month.
C14_AdditiveAggregation ==
    pc = "results" =>
        \A m \in Periods :
            /\ \A k \in Services :
                /\ ServiceMonth(k, m) = SumObserved(consumed, ObservedFor(k, m))
                /\ (/\ k \in DOMAIN service_monthly_totals
                    /\ m \in DOMAIN service_monthly_totals[k])
                        <=> ObservedFor(k, m) # {}
            /\ GetOr0(monthly_totals, m) =
                    SumObserved(consumed,
                                {o \in BagToSet(consumed) : o.month = m})
            /\ GetOr0(monthly_totals, m) = SumServiceMonth(Services, m)

\* C14 witness: a (group, period) pair was observed twice with amounts
\* other than 0, and a second group was observed for the same period.
C14_Witness ==
    /\ pc = "results"
    /\ \E k \in Services, m \in Periods :
        /\ \E o \in ObservedFor(k, m) :
            /\ o.amount # <<>>
            /\ \/ CopiesIn(o, consumed) >= 2
               \/ \E p \in ObservedFor(k, m) : p # o /\ p.amount # <<>>
        /\ ServiceMonth(k, m) # 0
        /\ \E j \in Services \ {k} : ObservedFor(j, m) # {}

\* C15: every query that was sent is restricted to the account it was
\* built for: its filter holds the linked-account dimension with that
\* account id, also when a tag key and a tag value are configured, and it
\* then holds the tag pair as well.
C15_QueryRestrictedToAccount ==
    \A i \in 1..Len(sent) :
        LET e == sent[i].request.filter
        IN  /\ e # <<>>
            /\ \E d \in 1..Len(e[1].dimensions) :
                    /\ e[1].dimensions[d].key = "LINKED_ACCOUNT"
                    /\ e[1].dimensions[d].values = <<sent[i].account_id>>
            /\ (cli.tag_key # <<>> /\ cli.tag_value # <<>>) =>
                    \E t \in 1..Len(e[1].tags) :
                        /\ e[1].tags[t].key = cli.tag_key[1]
                        /\ e[1].tags[t].values = <<cli.tag_value[1]>>

=============================================================================
